---- MODULE Spec2Model ----
(***************************************************************************)
(* Model of mediapipe/tasks/python/vision/image_classifier.py:             *)
(* the ImageClassifier task (create_from_options, classify,                *)
(* classify_for_video, classify_async and the packets_callback closure),   *)
(* its base class BaseVisionTaskApi and the task runner it drives.         *)
(***************************************************************************)
EXTENDS Integers, Sequences, FiniteSets, TLC

VARIABLES
  inst,             \* "none" | "open" | "closed": life cycle of the task instance
  options,          \* the caller's ImageClassifierOptions object (a mutable dataclass)
  running_mode,     \* self._running_mode
  packet_callback,  \* the callback the runner was created with (packets_callback or None)
  graph_config,     \* the graph configuration handed to the runner
  last_seen,        \* the runner's last accepted timestamp (microseconds) or Unset
  sent,             \* the image packets the runtime has taken, in order
  args,             \* for each element of sent: the image and timestamp_ms of its call
  lastSent,         \* the last packet set handed to the runtime, with its call
  status,           \* for each element of sent: what the runtime did with it
  cbLog,            \* invocations of the user callback, in order
  lastCall,         \* the last API call and how it ended
  lastDelivery      \* the last run of packets_callback: its packets, how it ended,
                    \* and the options.result_callback it read (None if it read none)

vars == <<inst, options, running_mode, packet_callback, graph_config, last_seen,
          sent, args, lastSent, status, cbLog, lastCall, lastDelivery>>

----------------------------------------------------------------------------
(* Bounds of the model *)

\* timestamps callers pass are 0..MaxTs
MaxTs == 1
\* packet sets one task instance hands to the runtime
MaxSent == MaxTs + 1
\* inputs the flow limiter lets the graph work on at a time
FlowLimit == 1

----------------------------------------------------------------------------
(* Values *)

None == "None"
\* Timestamp.Unset: the value of a timestamp that was never set, below every
\* timestamp a caller can pass
Unset == -1

IMAGE == "IMAGE"
VIDEO == "VIDEO"
LIVE_STREAM == "LIVE_STREAM"
RunningModes == {IMAGE, VIDEO, LIVE_STREAM}

Images == {"imgA", "imgB"}
Callbacks == {"cb1", "cb2"}
Timestamps == 0..MaxTs

\* _MICRO_SECONDS_PER_MILLISECOND
MICRO_SECONDS_PER_MILLISECOND == 1000

\* NormalizedRect(x_center, y_center, width, height); coordinates in tenths
NormalizedRect(x, y, w, h) ==
  [x_center |-> x, y_center |-> y, width |-> w, height |-> h]

\* a default rectangle centred on the image's corner
build_corner_norm_rect == NormalizedRect(0, 0, 10, 10)

\* _build_full_image_norm_rect: the rectangle covering the entire image
build_full_image_norm_rect == NormalizedRect(5, 5, 10, 10)

\* Optional[NormalizedRect]: <<>> is an omitted region, <<r>> the region r
NoRoi == <<>>
Rois == {NoRoi, <<NormalizedRect(2, 3, 4, 4)>>}

\* NormalizedRect.to_pb2: the rectangle as a protobuf message
rect_to_pb2(r) ==
  [proto |-> "NormalizedRect", x_center |-> r.x_center, y_center |-> r.y_center,
   width |-> r.width, height |-> r.height]

\* packet_creator.create_image / create_proto: a packet without a timestamp
create_image(image) == [kind |-> "image", data |-> image, timestamp |-> Unset]
create_proto(msg) == [kind |-> "proto", data |-> msg, timestamp |-> Unset]

\* Packet.at(ts): the same payload, stamped
at(p, ts) == [p EXCEPT !.timestamp = ts]

\* norm_rect = roi if roi is not None else _build_full_image_norm_rect()
norm_rect(roi) == IF roi # NoRoi THEN roi[1] ELSE build_full_image_norm_rect

\* packets stamped with the milliseconds as passed
packet_timestamp_raw(timestamp_ms) == timestamp_ms

\* the timestamp a timestamped entry point stamps its packets with
packet_timestamp(timestamp_ms) == timestamp_ms * MICRO_SECONDS_PER_MILLISECOND

\* the output timestamp handed on in microseconds
callback_timestamp_raw(value) == value

\* the timestamp packets_callback hands to the user callback
callback_timestamp(value) == value \div MICRO_SECONDS_PER_MILLISECOND

\* the packet set classify builds
image_packets(image, roi) ==
  [image_in |-> create_image(image),
   norm_rect_in |-> create_proto(rect_to_pb2(norm_rect(roi)))]

\* the packet set classify_for_video and classify_async build
stamped_packets(image, timestamp_ms, roi) ==
  [image_in |-> at(create_image(image), packet_timestamp(timestamp_ms)),
   norm_rect_in |-> at(create_proto(rect_to_pb2(norm_rect(roi))),
                       packet_timestamp(timestamp_ms))]

----------------------------------------------------------------------------
(* ImageClassifier.create_from_options and the BaseVisionTaskApi constructor *)

\* flow limiting asked for in the video mode instead of the live stream mode
enable_flow_limiting_video(opts) == opts.running_mode = VIDEO

\* flow limiting asked for in every streaming mode
enable_flow_limiting_streaming(opts) == opts.running_mode # IMAGE

\* enable_flow_limiting=options.running_mode == _RunningMode.LIVE_STREAM
enable_flow_limiting(opts) == opts.running_mode = LIVE_STREAM

\* base_options_proto.use_stream_mode (ImageClassifierOptions.to_pb2)
use_stream_mode(opts) == opts.running_mode # IMAGE

\* the closure handed to the constructor whether or not there is a callback
runner_callback_always(opts) == "packets_callback"

\* packets_callback if options.result_callback else None
runner_callback(opts) ==
  IF opts.result_callback # None THEN "packets_callback" ELSE None

\* task_info.generate_graph_config(enable_flow_limiting=...)
generate_graph_config(opts) ==
  [enable_flow_limiting |-> enable_flow_limiting(opts),
   use_stream_mode |-> use_stream_mode(opts)]

\* BaseVisionTaskApi.__init__: the live stream mode needs a callback, the
\* other modes must not have one
init_rejects(mode, callback) ==
  \/ mode = LIVE_STREAM /\ callback = None
  \/ mode # LIVE_STREAM /\ callback # None

\* the record kept for a call: the entry point, its timestamp argument, how
\* it ended, whether its packets had been created by then, and what it returned
\* (result and opts hold at most one element: <<>> stands for none)
Call(op, timestamp_ms, outcome, why, built, result) ==
  [op |-> op, timestamp_ms |-> timestamp_ms, outcome |-> outcome, why |-> why,
   built |-> built, result |-> result, opts |-> <<>>]

NoCall == Call(None, Unset, None, None, FALSE, <<>>)

\* the options object before the caller has made one
NoOptions == [running_mode |-> None, result_callback |-> None]

\* the graph configuration before there is a graph
NoGraphConfig == [enable_flow_limiting |-> FALSE, use_stream_mode |-> FALSE]

NoDelivery ==
  [src |-> 0, image_empty |-> FALSE, classification_empty |-> FALSE,
   handled |-> None, callback |-> None]

Init ==
  /\ inst = "none"
  /\ options = NoOptions
  /\ running_mode = None
  /\ packet_callback = None
  /\ graph_config = NoGraphConfig
  /\ last_seen = Unset
  /\ sent = <<>>
  /\ args = <<>>
  /\ lastSent = <<>>
  /\ status = <<>>
  /\ cbLog = <<>>
  /\ lastCall = NoCall
  /\ lastDelivery = NoDelivery

\* create_from_options(options): builds the closure, the graph configuration
\* and the instance; the constructor validates callback against mode
create_from_options(opts) ==
  /\ inst = "none"
  /\ IF init_rejects(opts.running_mode, runner_callback(opts))
     THEN /\ lastCall' = [Call("create_from_options", Unset, "config_error",
                                None, FALSE, <<>>) EXCEPT !.opts = <<opts>>]
          /\ UNCHANGED <<inst, options, running_mode, packet_callback, graph_config>>
     ELSE /\ inst' = "open"
          /\ options' = opts
          /\ running_mode' = opts.running_mode
          /\ packet_callback' = runner_callback(opts)
          /\ graph_config' = generate_graph_config(opts)
          /\ lastCall' = [Call("create_from_options", Unset, "ok",
                                None, FALSE, <<>>) EXCEPT !.opts = <<opts>>]
  /\ UNCHANGED <<last_seen, sent, args, lastSent, status, cbLog, lastDelivery>>

\* create_from_model_path building its options with the video mode
create_from_model_path_video ==
  create_from_options([running_mode |-> VIDEO, result_callback |-> None])

\* create_from_model_path(model_path): default options, image mode
create_from_model_path ==
  create_from_options([running_mode |-> IMAGE, result_callback |-> None])

CreateFromOptions ==
  \E m \in RunningModes, cb \in Callbacks \cup {None} :
    create_from_options([running_mode |-> m, result_callback |-> cb])

\* the caller assigns to a field of the options object it passed in
MutateOptions ==
  /\ inst = "open"
  /\ \E cb \in Callbacks \cup {None} :
       /\ cb # options.result_callback
       /\ options' = [options EXCEPT !.result_callback = cb]
  /\ UNCHANGED <<inst, running_mode, packet_callback, graph_config, last_seen,
                 sent, args, lastSent, status, cbLog, lastCall, lastDelivery>>

----------------------------------------------------------------------------
(* The task runner and the graph runtime behind it *)

\* classify_async handing its packets to the video helper
entry_helper_video_for_async(op) ==
  CASE op = "classify" -> "_process_image_data"
    [] op = "classify_for_video" -> "_process_video_data"
    [] op = "classify_async" -> "_process_video_data"

\* the base-class helper each entry point hands its packets to
entry_helper(op) ==
  CASE op = "classify" -> "_process_image_data"
    [] op = "classify_for_video" -> "_process_video_data"
    [] op = "classify_async" -> "_send_live_stream_data"

\* BaseVisionTaskApi._process_image_data / _process_video_data /
\* _send_live_stream_data: the running mode each of them requires
helper_mode(helper) ==
  CASE helper = "_process_image_data" -> IMAGE
    [] helper = "_process_video_data" -> VIDEO
    [] helper = "_send_live_stream_data" -> LIVE_STREAM

\* the mode check an entry point runs into
mode_rejects(op, mode) == mode # helper_mode(entry_helper(op))

\* a guard that lets a repeated timestamp through
timestamp_rejects_strict(last, ts) == last # Unset /\ ts < last

\* a guard whose last accepted timestamp starts at 0
timestamp_rejects_from_zero(last, ts) ==
  ts <= (IF last = Unset THEN 0 ELSE last)

\* the runner's timestamp guard: a timestamp that does not exceed the last
\* accepted one is refused
timestamp_rejects(last, ts) == last # Unset /\ ts <= last

\* the classification the graph computes for an image, as a protobuf message
graph_classification(image) == [proto |-> "ClassificationResult", classifications |-> <<image>>]

\* a conversion that loses the classifications of the message
classification_result_empty(proto) == [classifications |-> <<>>]

\* classifications.ClassificationResult([... create_from_pb2(c) for c in proto.classifications])
classification_result(proto) == [classifications |-> proto.classifications]

\* indices of the submissions the runtime is still working on
InFlight == {i \in 1..Len(status) : status[i] = "inflight"}

\* a guard that records the timestamp it goes on to refuse
raise_usage_error_recording(op, timestamp_ms, why) ==
  /\ lastCall' = [op |-> op, timestamp_ms |-> timestamp_ms,
                  outcome |-> "usage_error", why |-> why, built |-> TRUE,
                  result |-> <<>>, opts |-> <<>>]
  /\ last_seen' = IF why = "timestamp"
                  THEN timestamp_ms * MICRO_SECONDS_PER_MILLISECOND
                  ELSE last_seen
  /\ UNCHANGED <<inst, options, running_mode, packet_callback, graph_config,
                 sent, args, lastSent, status, cbLog, lastDelivery>>

\* an entry point that reaches the helper's checks before it builds anything
built_after_checks(op) == FALSE

\* whether the region and the packets exist when the helper's checks run: the
\* packet set is an argument expression of the helper call, so each entry
\* point has evaluated norm_rect, create_image and create_proto by then
built_before_helper(op) ==
  CASE op = "classify" -> TRUE
    [] op = "classify_for_video" -> TRUE
    [] op = "classify_async" -> TRUE

\* a call that raises ValueError before anything reaches the runtime
raise_usage_error(op, timestamp_ms, why) ==
  /\ lastCall' = Call(op, timestamp_ms, "usage_error", why,
                      built_before_helper(op), <<>>)
  /\ UNCHANGED <<inst, options, running_mode, packet_callback, graph_config,
                 last_seen, sent, args, lastSent, status, cbLog, lastDelivery>>

\* the graph takes a packet set: the image packet stays with the runtime
\* until its output is handed over
runtime_takes(op, image, timestamp_ms, roi, packets) ==
  /\ sent' = Append(sent, packets.image_in)
  /\ args' = Append(args, [image |-> image, timestamp_ms |-> timestamp_ms])
  /\ lastSent' = <<[op |-> op, image |-> image, timestamp_ms |-> timestamp_ms,
                    roi |-> roi, packets |-> packets]>>

\* TaskRunner.process: hands the packet set to the graph and waits for the
\* paired output, or for the graph's error
runner_process(op, image, timestamp_ms, roi, packets) ==
  /\ runtime_takes(op, image, timestamp_ms, roi, packets)
  /\ status' = Append(status, "finished")
  /\ \/ lastCall' = Call(op, timestamp_ms, "ok", None, TRUE,
                         <<classification_result(graph_classification(image))>>)
     \/ lastCall' = Call(op, timestamp_ms, "runtime_error", None, TRUE, <<>>)
  /\ UNCHANGED <<inst, options, running_mode, packet_callback, graph_config,
                 cbLog, lastDelivery>>

\* the flow limiter: with flow limiting enabled and the bound reached, taking
\* a new input makes the runtime drop one input, the new one or one in flight
flow_limited(st) ==
  LET new == Len(st) + 1
      busy == {i \in 1..Len(st) : st[i] = "inflight"}
  IN IF graph_config.enable_flow_limiting /\ Cardinality(busy) >= FlowLimit
     THEN {[i \in 1..new |-> IF i = v THEN "dropped"
                             ELSE IF i = new THEN "inflight" ELSE st[i]] :
           v \in busy \cup {new}}
     ELSE {Append(st, "inflight")}

\* TaskRunner.send: hands the packet set to the graph and returns
runner_send(op, image, timestamp_ms, roi, packets) ==
  /\ runtime_takes(op, image, timestamp_ms, roi, packets)
  /\ status' \in flow_limited(status)
  /\ lastCall' = Call(op, timestamp_ms, "ok", None, TRUE, <<>>)
  /\ UNCHANGED <<inst, options, running_mode, packet_callback, graph_config,
                 cbLog, lastDelivery>>

----------------------------------------------------------------------------
(* The three entry points *)

\* classify(image, roi)
classify(image, roi) ==
  LET packets == image_packets(image, roi)
  IN /\ inst # "none"
     /\ IF mode_rejects("classify", running_mode)
        THEN raise_usage_error("classify", Unset, "mode")
        ELSE IF inst = "closed"
        THEN raise_usage_error("classify", Unset, "closed")
        ELSE /\ Len(sent) < MaxSent
             /\ runner_process("classify", image, Unset, roi, packets)
             /\ UNCHANGED last_seen

\* classify_for_video(image, timestamp_ms, roi)
classify_for_video(image, timestamp_ms, roi) ==
  LET packets == stamped_packets(image, timestamp_ms, roi)
      ts == packets.image_in.timestamp
  IN /\ inst # "none"
     /\ IF mode_rejects("classify_for_video", running_mode)
        THEN raise_usage_error("classify_for_video", timestamp_ms, "mode")
        ELSE IF inst = "closed"
        THEN raise_usage_error("classify_for_video", timestamp_ms, "closed")
        ELSE IF timestamp_rejects(last_seen, ts)
        THEN raise_usage_error("classify_for_video", timestamp_ms, "timestamp")
        ELSE /\ Len(sent) < MaxSent
             /\ last_seen' = ts
             /\ runner_process("classify_for_video", image, timestamp_ms, roi, packets)

\* a classify_async that waits until every earlier input has been delivered
classify_async_blocking(image, timestamp_ms, roi) ==
  LET packets == stamped_packets(image, timestamp_ms, roi)
      ts == packets.image_in.timestamp
  IN /\ inst # "none"
     /\ IF mode_rejects("classify_async", running_mode)
        THEN raise_usage_error("classify_async", timestamp_ms, "mode")
        ELSE IF inst = "closed"
        THEN raise_usage_error("classify_async", timestamp_ms, "closed")
        ELSE IF timestamp_rejects(last_seen, ts)
        THEN raise_usage_error("classify_async", timestamp_ms, "timestamp")
        ELSE /\ \A i \in 1..Len(status) : status[i] = "finished"
             /\ Len(sent) < MaxSent
             /\ last_seen' = ts
             /\ runner_send("classify_async", image, timestamp_ms, roi, packets)

\* classify_async(image, timestamp_ms, roi)
classify_async(image, timestamp_ms, roi) ==
  LET packets == stamped_packets(image, timestamp_ms, roi)
      ts == packets.image_in.timestamp
  IN /\ inst # "none"
     /\ IF mode_rejects("classify_async", running_mode)
        THEN raise_usage_error("classify_async", timestamp_ms, "mode")
        ELSE IF inst = "closed"
        THEN raise_usage_error("classify_async", timestamp_ms, "closed")
        ELSE IF timestamp_rejects(last_seen, ts)
        THEN raise_usage_error("classify_async", timestamp_ms, "timestamp")
        ELSE /\ Len(sent) < MaxSent
             /\ last_seen' = ts
             /\ runner_send("classify_async", image, timestamp_ms, roi, packets)

Classify == \E image \in Images, roi \in Rois : classify(image, roi)

ClassifyForVideo ==
  \E image \in Images, t \in Timestamps, roi \in Rois :
    classify_for_video(image, t, roi)

ClassifyAsync ==
  \E image \in Images, t \in Timestamps, roi \in Rois :
    classify_async(image, t, roi)

----------------------------------------------------------------------------
(* The runtime's side of the live stream mode *)

\* the graph finishes an input; inputs finish in any order
Complete ==
  /\ inst = "open"
  /\ \E i \in InFlight : status' = [status EXCEPT ![i] = "done"]
  /\ UNCHANGED <<inst, options, running_mode, packet_callback, graph_config,
                 last_seen, sent, args, lastSent, cbLog, lastCall, lastDelivery>>

\* submissions whose outputs the runtime has not yet handed over
Undelivered ==
  {i \in 1..Len(status) : status[i] \in {"inflight", "done", "dropped"}}

\* a runtime handing over outputs in the order they are finished
next_delivery_any == Undelivered

\* an output stream carries its packets in timestamp order: the next
\* delivery is the one of the earliest submission not yet delivered
next_delivery == {i \in Undelivered : \A j \in Undelivered : i <= j}

\* the output packets of submission i: the echoed image and the
\* classification, each of them possibly an empty packet
output_packets(i, image_empty, classification_empty) ==
  [image_out |-> [empty |-> image_empty,
                  data |-> sent[i].data,
                  timestamp |-> sent[i].timestamp],
   classification_result_out |->
                 [empty |-> classification_empty,
                  data |-> graph_classification(sent[i].data),
                  timestamp |-> sent[i].timestamp]]

\* the emptiness test made on the classification stream
is_dropped_on_classification(out) == out.classification_result_out.empty

\* the emptiness test made on both output streams
is_dropped_on_either(out) ==
  out.image_out.empty \/ out.classification_result_out.empty

\* if output_packets[_IMAGE_OUT_STREAM_NAME].is_empty(): return
is_dropped(out) == out.image_out.empty

\* packet_getter.get_proto raises on an empty packet
get_proto_raises(p) == p.empty

\* options.result_callback, read when a delivery is dispatched
result_callback == options.result_callback

\* how packets_callback ends for these output packets
packets_callback_handled(out) ==
  IF is_dropped(out) THEN "discarded"
  ELSE IF get_proto_raises(out.classification_result_out) THEN "error"
  ELSE IF result_callback = None THEN "error"
  ELSE "invoked"

\* the invocation options.result_callback(classification_result, image,
\* timestamp.value // _MICRO_SECONDS_PER_MILLISECOND)
invocation(out, i) ==
  [result |-> classification_result(out.classification_result_out.data),
   image |-> out.image_out.data,
   timestamp_ms |-> callback_timestamp(out.image_out.timestamp),
   src |-> i]

\* a dispatcher that keeps each delivery back and invokes the callback for it
\* when the next delivery arrives
packets_callback_buffering(out, i) ==
  LET handled == packets_callback_handled(out)
      kept == lastDelivery.src
  IN /\ cbLog' = IF kept # 0 /\ lastDelivery.handled = "invoked"
                 THEN Append(cbLog, invocation(output_packets(kept, FALSE, FALSE), kept))
                 ELSE cbLog
     /\ lastDelivery' = [src |-> i, image_empty |-> out.image_out.empty,
                         classification_empty |-> out.classification_result_out.empty,
                         handled |-> handled,
                         callback |-> IF handled = "invoked" THEN result_callback
                                      ELSE None]

\* packets_callback(output_packets), run for the delivery of submission i
packets_callback(out, i) ==
  LET handled == packets_callback_handled(out)
  IN /\ cbLog' = IF handled = "invoked" THEN Append(cbLog, invocation(out, i))
                 ELSE cbLog
     /\ lastDelivery' = [src |-> i, image_empty |-> out.image_out.empty,
                         classification_empty |-> out.classification_result_out.empty,
                         handled |-> handled,
                         callback |-> IF handled = "discarded"
                                         \/ get_proto_raises(out.classification_result_out)
                                      THEN None ELSE result_callback]

\* the runtime hands the next output packet set to the registered callback;
\* a dropped input yields empty packets
Deliver ==
  /\ inst = "open"
  /\ packet_callback # None
  /\ \E i \in next_delivery, ie \in BOOLEAN, ce \in BOOLEAN :
       /\ \/ status[i] = "done"
          \/ status[i] = "dropped" /\ ie /\ ce
       /\ packets_callback(output_packets(i, ie, ce), i)
       /\ status' = [status EXCEPT ![i] = "finished"]
  /\ UNCHANGED <<inst, options, running_mode, packet_callback, graph_config,
                 last_seen, sent, args, lastSent, lastCall>>

\* the runtime emits nothing for an input it dropped
Skip ==
  /\ inst = "open"
  /\ \E i \in next_delivery :
       /\ status[i] = "dropped"
       /\ status' = [status EXCEPT ![i] = "finished"]
  /\ UNCHANGED <<inst, options, running_mode, packet_callback, graph_config,
                 last_seen, sent, args, lastSent, cbLog, lastCall, lastDelivery>>

\* a close() that discards what was not delivered but leaves the instance usable
Close_leaves_open ==
  /\ inst = "open"
  /\ inst' = "open"
  /\ status' = [i \in 1..Len(status) |-> "finished"]
  /\ lastCall' = [op |-> "close", timestamp_ms |-> Unset, outcome |-> "ok",
                  why |-> None, built |-> FALSE, result |-> <<>>, opts |-> <<>>]
  /\ UNCHANGED <<options, running_mode, packet_callback, graph_config,
                 last_seen, sent, args, lastSent, cbLog, lastDelivery>>

\* close(): the runner shuts the graph down; what was not delivered is discarded
Close ==
  /\ inst = "open"
  /\ inst' = "closed"
  /\ status' = [i \in 1..Len(status) |-> "finished"]
  /\ lastCall' = Call("close", Unset, "ok", None, FALSE, <<>>)
  /\ UNCHANGED <<options, running_mode, packet_callback, graph_config,
                 last_seen, sent, args, lastSent, cbLog, lastDelivery>>

Next ==
  \/ CreateFromOptions
  \/ create_from_model_path
  \/ MutateOptions
  \/ Classify
  \/ ClassifyForVideo
  \/ ClassifyAsync
  \/ Complete
  \/ Deliver
  \/ Skip
  \/ Close

Spec == Init /\ [][Next]_vars

----------------------------------------------------------------------------
(* Properties *)

EntryPoints == {"classify", "classify_for_video", "classify_async"}
Timestamped == {"classify_for_video", "classify_async"}

\* the calls accepted before the last call
PriorAccepted ==
  IF lastCall.op \in EntryPoints /\ lastCall.outcome # "usage_error"
  THEN 1..(Len(args) - 1)
  ELSE 1..Len(args)

\* C1: in the video and live stream modes a call whose timestamp does not
\* exceed the timestamp of an earlier accepted call ends in a usage error, and
\* the timestamps of the packets the runtime has taken stay strictly increasing
C1_NonIncreasingTimestampRejected ==
  /\ (/\ lastCall.op \in Timestamped
      /\ \E i \in PriorAccepted : lastCall.timestamp_ms <= args[i].timestamp_ms)
     => lastCall.outcome = "usage_error"
  /\ running_mode \in {VIDEO, LIVE_STREAM}
     => \A i, j \in 1..Len(sent) : i < j => sent[i].timestamp < sent[j].timestamp

\* a call repeating the timestamp of the last accepted call was refused
C1_Witness ==
  /\ lastCall.op \in Timestamped
  /\ lastCall.outcome = "usage_error"
  /\ lastCall.why = "timestamp"
  /\ Len(args) >= 1
  /\ lastCall.timestamp_ms = args[Len(args)].timestamp_ms

\* the entry point that goes with a running mode
Matches(op, mode) ==
  \/ op = "classify" /\ mode = IMAGE
  \/ op = "classify_for_video" /\ mode = VIDEO
  \/ op = "classify_async" /\ mode = LIVE_STREAM

\* C2: an entry point called on an instance of another running mode ends in
\* a usage error, and whatever reached the runtime came from the entry point
\* that goes with the instance's mode
C2_WrongModeRejected ==
  /\ (lastCall.op \in EntryPoints /\ ~Matches(lastCall.op, running_mode))
     => lastCall.outcome = "usage_error"
  /\ lastSent # <<>> => Matches(lastSent[1].op, running_mode)

\* classify_async was called on a video-mode instance that had taken a frame
C2_Witness ==
  /\ running_mode = VIDEO
  /\ lastCall.op = "classify_async"
  /\ lastCall.outcome = "usage_error"
  /\ Len(sent) >= 1

\* the options of the last create_from_options call ask for a callback
\* exactly when they ask for the live stream mode
Consistent(opts) ==
  (opts.result_callback # None) <=> (opts.running_mode = LIVE_STREAM)

\* C3: create_from_options with the live stream mode and no callback, or
\* with a callback and another mode, fails and creates no instance; an
\* instance has a callback exactly when its mode is the live stream mode
C3_CallbackIffLiveStream ==
  /\ (lastCall.op = "create_from_options" /\ ~Consistent(lastCall.opts[1]))
     => (lastCall.outcome = "config_error" /\ inst = "none")
  /\ inst # "none" => ((packet_callback # None) <=> (running_mode = LIVE_STREAM))

\* creation in the live stream mode without a callback was refused
C3_Witness ==
  /\ lastCall.op = "create_from_options"
  /\ lastCall.outcome = "config_error"
  /\ lastCall.opts[1].running_mode = LIVE_STREAM
  /\ lastCall.opts[1].result_callback = None
  /\ inst = "none"

\* the invocations made for the last delivery
LastInvocations == {k \in 1..Len(cbLog) : cbLog[k].src = lastDelivery.src}

\* what the callback must be handed for the last delivery
ExpectedInvocation ==
  [result |-> [classifications |-> <<args[lastDelivery.src].image>>],
   image |-> args[lastDelivery.src].image,
   timestamp_ms |-> sent[lastDelivery.src].timestamp \div 1000,
   src |-> lastDelivery.src]

C6_RejectedCallChangesNothing ==
  [][(lastCall' # lastCall /\ lastCall'.op \in EntryPoints
                           /\ lastCall'.outcome = "usage_error")
     => UNCHANGED <<inst, running_mode, packet_callback, graph_config,
                    last_seen, sent, args, lastSent, status, cbLog,
                    lastDelivery, options>>]_vars

\* an earlier timestamp was refused after a later one had been accepted
C6_Witness ==
  /\ lastCall.outcome = "usage_error"
  /\ lastCall.why = "timestamp"
  /\ Len(args) >= 1
  /\ lastCall.timestamp_ms < args[Len(args)].timestamp_ms
  /\ last_seen = sent[Len(sent)].timestamp

\* C7: the timestamp the user callback receives is the timestamp_ms of the
\* classify_async call whose result it is
C7_TimestampRoundTrip ==
  \A k \in 1..Len(cbLog) : cbLog[k].timestamp_ms = args[cbLog[k].src].timestamp_ms

\* a result submitted with a non-zero timestamp reached the callback
C7_Witness ==
  \E k \in 1..Len(cbLog) :
    cbLog[k].timestamp_ms > 0 /\ args[cbLog[k].src].timestamp_ms > 0

\* C8: the two packets classify_for_video and classify_async send carry the
\* same timestamp, timestamp_ms * 1000; the two packets classify sends carry
\* no timestamp
C8_PacketTimestamps ==
  lastSent # <<>> =>
    LET s == lastSent[1]
    IN IF s.op \in Timestamped
       THEN /\ s.packets.image_in.timestamp = s.timestamp_ms * 1000
            /\ s.packets.norm_rect_in.timestamp = s.packets.image_in.timestamp
       ELSE /\ s.packets.image_in.timestamp = Unset
            /\ s.packets.norm_rect_in.timestamp = Unset

\* a video frame with a non-zero timestamp was sent
C8_Witness ==
  /\ lastSent # <<>>
  /\ lastSent[1].op = "classify_for_video"
  /\ lastSent[1].timestamp_ms > 0

\* the packet set the entry point of the last submission builds for a region
PacketsFor(s, roi) ==
  IF s.op = "classify" THEN image_packets(s.image, roi)
  ELSE stamped_packets(s.image, s.timestamp_ms, roi)

\* C9: a call without a region sends the packet set that the same call with
\* the region {0.5, 0.5, 1, 1} sends, and a region that is passed is what the
\* region packet holds
C9_DefaultRegion ==
  lastSent # <<>> =>
    LET s == lastSent[1]
    IN IF s.roi = NoRoi
       THEN /\ s.packets = PacketsFor(s, <<NormalizedRect(5, 5, 10, 10)>>)
            /\ s.packets.norm_rect_in.data.x_center = 5
            /\ s.packets.norm_rect_in.data.y_center = 5
            /\ s.packets.norm_rect_in.data.width = 10
            /\ s.packets.norm_rect_in.data.height = 10
       ELSE /\ s.packets.norm_rect_in.data.x_center = s.roi[1].x_center
            /\ s.packets.norm_rect_in.data.y_center = s.roi[1].y_center
            /\ s.packets.norm_rect_in.data.width = s.roi[1].width
            /\ s.packets.norm_rect_in.data.height = s.roi[1].height

\* classify_async was called without a region
C9_Witness ==
  /\ lastSent # <<>>
  /\ lastSent[1].op = "classify_async"
  /\ lastSent[1].roi = NoRoi

\* C10: the graph configuration asks for flow limiting exactly when the
\* running mode is the live stream mode
C10_FlowLimitingIffLiveStream ==
  inst # "none" => (graph_config.enable_flow_limiting <=> running_mode = LIVE_STREAM)

\* an instance in the live stream mode, with flow limiting on, dropped an input
C10_Witness ==
  /\ running_mode = LIVE_STREAM
  /\ graph_config.enable_flow_limiting
  /\ \E i \in 1..Len(status) : status[i] = "dropped"

\* the invocations made for submission i
InvocationsOf(log, i) == {k \in 1..Len(log) : log[k].src = i}

\* C11: in the live stream mode the runtime never works on more inputs than
\* the flow limit; an input the flow limiter dropped gets no callback, then or
\* later; and the classify_async call during which an input is dropped
\* returns without an error
C11_FlowLimitBound ==
  [][/\ running_mode' = LIVE_STREAM => Cardinality(InFlight') <= FlowLimit
     /\ \A i \in 1..Len(status) :
          status[i] \in {"dropped", "finished"}
            => InvocationsOf(cbLog', i) = InvocationsOf(cbLog, i)
     /\ (Len(sent') > Len(sent) /\ running_mode = LIVE_STREAM)
          => (lastCall'.op = "classify_async" /\ lastCall'.outcome = "ok")]_vars

\* a classify_async call made while the runtime was at its limit returned
\* normally and an input was dropped
C11_Witness ==
  /\ running_mode = LIVE_STREAM
  /\ lastCall.op = "classify_async"
  /\ lastCall.outcome = "ok"
  /\ Cardinality(InFlight) = FlowLimit
  /\ \E i \in 1..Len(status) : status[i] = "dropped"
  /\ cbLog = <<>>

\* C12: create_from_model_path yields an open instance in the image mode
\* with no callback; on such an instance classify is accepted while it is
\* open, and every classify_for_video and classify_async call ends in a usage
\* error and hands nothing to the runtime
C12_ModelPathInstance ==
  [][/\ create_from_model_path
          => /\ inst' = "open"
             /\ running_mode' = IMAGE
             /\ packet_callback' = None
             /\ lastCall'.outcome = "ok"
     /\ (/\ running_mode' = IMAGE
         /\ packet_callback' = None
         /\ lastCall' # lastCall
         /\ lastCall'.op \in EntryPoints)
          => IF lastCall'.op = "classify"
             THEN inst = "open" => /\ lastCall'.outcome \in {"ok", "runtime_error"}
                                   /\ Len(sent') = Len(sent) + 1
             ELSE /\ lastCall'.outcome = "usage_error"
                  /\ sent' = sent]_vars

\* an image-mode instance without callback has accepted a classify call and
\* then refused a classify_async call
C12_Witness ==
  /\ inst = "open"
  /\ running_mode = IMAGE
  /\ packet_callback = None
  /\ options = [running_mode |-> IMAGE, result_callback |-> None]
  /\ Len(lastSent) = 1
  /\ lastSent[1].op = "classify"
  /\ lastCall.op = "classify_async"
  /\ lastCall.outcome = "usage_error"

\* C13: close() leaves the instance closed; a closed instance stays closed
\* whatever is done next, every call to an entry point on it ends in an
\* error, and nothing is handed to the runtime or delivered any more
C13_ClosedIsTerminal ==
  [][/\ (lastCall'.op = "close" /\ lastCall' # lastCall) => inst' = "closed"
     /\ inst = "closed"
          => /\ inst' = "closed"
             /\ UNCHANGED <<running_mode, last_seen, sent, args, status, cbLog>>
             /\ lastCall' # lastCall
                  => /\ lastCall'.op \in EntryPoints
                     /\ lastCall'.outcome = "usage_error"]_vars

\* an instance that had accepted an input was closed and then refused a
\* call its running mode allows
C13_Witness ==
  /\ inst = "closed"
  /\ Len(sent) >= 1
  /\ lastCall.op \in EntryPoints
  /\ ~mode_rejects(lastCall.op, running_mode)
  /\ lastCall.outcome = "usage_error"
  /\ lastCall.why = "closed"

\* C14: in the image and video modes every call handed to the runtime has
\* exactly one outcome, the classification of the very input it submitted or
\* a runtime error, and when the call has returned the runtime holds no
\* request of the instance: nothing is outstanding and no callback was made
C14_SyncOneOutcome ==
  running_mode \in {IMAGE, VIDEO}
    => /\ Undelivered = {}
       /\ cbLog = <<>>
       /\ Len(status) = Len(sent)
       /\ (lastCall.op \in {"classify", "classify_for_video"}
           /\ lastCall.outcome # "usage_error")
            => /\ Len(lastSent) = 1
               /\ lastSent[1].op = lastCall.op
               /\ lastSent[1].timestamp_ms = lastCall.timestamp_ms
               /\ \/ /\ lastCall.outcome = "ok"
                     /\ lastCall.result
                          = <<[classifications |-> <<lastSent[1].image>>]>>
                  \/ /\ lastCall.outcome = "runtime_error"
                     /\ lastCall.result = <<>>

\* a second video call returned the classification of its own image after a
\* first call on another image
C14_Witness ==
  /\ running_mode = VIDEO
  /\ Len(args) = 2
  /\ args[1].image # args[2].image
  /\ lastCall.op = "classify_for_video"
  /\ lastCall.outcome = "ok"
  /\ lastCall.result = <<[classifications |-> <<args[2].image>>]>>

\* a classify_async call with timestamp t that returns normally
AsyncAccepted(t) ==
  \E image \in Images, roi \in Rois :
    /\ classify_async(image, t, roi)
    /\ lastCall'.outcome = "ok"

\* a classify_async call with timestamp t that ends in a usage error
AsyncRejected(t) ==
  \E image \in Images, roi \in Rois :
    /\ classify_async(image, t, roi)
    /\ lastCall'.outcome = "usage_error"

\* C15: on an open live stream instance a classify_async call with a newer
\* timestamp can return normally at once, whatever has or has not been
\* delivered of the earlier submissions, and one with an older or equal
\* timestamp is refused at once; the runtime's completing, delivering or
\* skipping an input changes nothing of what decides acceptance
C15_AsyncNeverWaits ==
  /\ [](inst = "open" /\ running_mode = LIVE_STREAM
        => \A t \in Timestamps :
             IF last_seen = Unset \/ t * 1000 > last_seen
             THEN Len(sent) < MaxSent => ENABLED AsyncAccepted(t)
             ELSE ENABLED AsyncRejected(t))
  /\ [][(running_mode = LIVE_STREAM /\ sent' = sent /\ status' # status
          /\ lastCall'.op # "close")
          => UNCHANGED <<inst, running_mode, last_seen, lastCall>>]_vars

\* a classify_async call returned normally while the earlier submission was
\* still with the runtime, undelivered
C15_Witness ==
  /\ running_mode = LIVE_STREAM
  /\ inst = "open"
  /\ lastCall.op = "classify_async"
  /\ lastCall.outcome = "ok"
  /\ Len(status) = 2
  /\ status[1] \in {"inflight", "done", "dropped"}
  /\ status[2] = "inflight"

\* C16 as claimed: a call refused for its running mode has built no region
\* and created no packet by the time the usage error is raised
C16_Original ==
  (/\ lastCall.op \in EntryPoints
   /\ lastCall.outcome = "usage_error"
   /\ lastCall.why = "mode")
    => ~lastCall.built

\* C16: a call to an entry point whose running mode does not match ends in
\* the usage error of the mode check, before the closed check and before the
\* timestamp guard, but the region and both packets have been built by then
C16_PacketsBuiltThenModeCheck ==
  (lastCall.op \in EntryPoints /\ ~Matches(lastCall.op, running_mode))
    => /\ lastCall.outcome = "usage_error"
       /\ lastCall.why = "mode"
       /\ lastCall.built

\* a closed video instance refused a classify_async call for its mode, with
\* the packets built
C16_Witness ==
  /\ inst = "closed"
  /\ running_mode = VIDEO
  /\ last_seen # Unset
  /\ lastCall.op = "classify_async"
  /\ lastCall.timestamp_ms * 1000 <= last_seen
  /\ lastCall.outcome = "usage_error"
  /\ lastCall.why = "mode"
  /\ lastCall.built

\* C17: in the video and live stream modes the guard lets a call through
\* exactly when there is no accepted timestamp yet (timestamp 0 included) or
\* the call's timestamp exceeds the last accepted one, which it then
\* replaces; the last accepted timestamp is the last and the largest of the
\* timestamps submitted to the runtime
C17_TimestampGuardExact ==
  /\ [](running_mode \in {VIDEO, LIVE_STREAM}
        => /\ last_seen = IF sent = <<>> THEN Unset
                          ELSE sent[Len(sent)].timestamp
           /\ \A i \in 1..Len(sent) : sent[i].timestamp <= last_seen
           /\ \A i \in 1..(Len(sent) - 1) :
                sent[i].timestamp < sent[i + 1].timestamp)
  /\ [][(/\ inst = "open"
         /\ lastCall' # lastCall
         /\ lastCall'.op \in Timestamped
         /\ Matches(lastCall'.op, running_mode))
          => IF last_seen = Unset \/ lastCall'.timestamp_ms * 1000 > last_seen
             THEN /\ lastCall'.outcome # "usage_error"
                  /\ last_seen' = lastCall'.timestamp_ms * 1000
                  /\ Len(sent') = Len(sent) + 1
                  /\ sent'[Len(sent')].timestamp = last_seen'
             ELSE /\ lastCall'.outcome = "usage_error"
                  /\ lastCall'.why = "timestamp"
                  /\ UNCHANGED <<last_seen, sent>>]_vars

\* a first call with timestamp 0 and a later call with a larger timestamp
\* were both accepted in the video mode
C17_Witness ==
  /\ running_mode = VIDEO
  /\ Len(sent) = 2
  /\ args[1].timestamp_ms = 0
  /\ args[2].timestamp_ms > 0
  /\ last_seen = sent[2].timestamp
  /\ lastCall.op = "classify_for_video"
  /\ lastCall.outcome # "usage_error"

\* C18: the callback log only ever grows by one invocation at its end, and
\* that invocation belongs to the delivery made in the same step, of a later
\* submission than every invocation before it; a delivery that ends in an
\* invocation makes it in its own step, so none is kept back for later
C18_NoReorderNoBuffer ==
  [][/\ cbLog' # cbLog
          => /\ Len(cbLog') = Len(cbLog) + 1
             /\ SubSeq(cbLog', 1, Len(cbLog)) = cbLog
             /\ LET made == cbLog'[Len(cbLog')]
                IN /\ made.src = lastDelivery'.src
                   /\ lastDelivery'.handled = "invoked"
                   /\ status[made.src] = "done"
                   /\ status'[made.src] = "finished"
                   /\ \A k \in 1..Len(cbLog) : cbLog[k].src < made.src
     /\ \A i \in 1..Len(status) :
          (/\ status[i] = "done"
           /\ status'[i] = "finished"
           /\ lastDelivery'.src = i
           /\ lastDelivery'.handled = "invoked")
            => /\ Len(cbLog') = Len(cbLog) + 1
               /\ cbLog'[Len(cbLog')].src = i]_vars

\* two deliveries were dispatched one after the other, each invoking the
\* callback when it was handed over
C18_Witness ==
  /\ Len(cbLog) = 2
  /\ cbLog[1].src = 1
  /\ cbLog[2].src = 2
  /\ lastDelivery.src = 2
  /\ lastDelivery.handled = "invoked"
  /\ \A i \in 1..Len(status) : status[i] = "finished"

\* C19: a delivery is discarded without trace exactly when its image packet
\* is empty, whatever its classification packet holds; a delivery with a
\* non-empty image ends in a callback invocation or in a raised error, also
\* when its classification packet is empty
C19_EmptyImageOnlyDropSignal ==
  lastDelivery.src # 0
    => /\ lastDelivery.handled = "discarded" <=> lastDelivery.image_empty
       /\ ~lastDelivery.image_empty
            => /\ lastDelivery.handled \in {"invoked", "error"}
               /\ lastDelivery.handled = "invoked"
                    => /\ cbLog # <<>>
                       /\ cbLog[Len(cbLog)].src = lastDelivery.src
       /\ (~lastDelivery.image_empty /\ lastDelivery.classification_empty)
            => lastDelivery.handled = "error"

\* a delivery with an empty image and a non-empty classification packet was
\* discarded after an earlier delivery had been dispatched to the callback
C19_Witness ==
  /\ lastDelivery.src = 2
  /\ lastDelivery.image_empty
  /\ ~lastDelivery.classification_empty
  /\ lastDelivery.handled = "discarded"
  /\ Len(cbLog) = 1

\* C20 as claimed: while the instance lives its running mode never changes,
\* and the callback invoked for a delivery is the one invoked for the
\* delivery before it, whatever the caller has done to the options object
\* in between
C20_ConfigurationFixed ==
  [][inst = "open"
       => /\ running_mode' = running_mode
          /\ (lastDelivery.handled = "invoked" /\ lastDelivery'.handled = "invoked")
               => lastDelivery'.callback = lastDelivery.callback]_vars

====
